---- MODULE Spec2Model ----
(***************************************************************************)
(* A model of DG.DateTimeAxisViewHelper (src/unnamed/part_000): the level  *)
(* resolver, the calendar label functions and the tick layout of a         *)
(* date-time axis.                                                         *)
(*                                                                         *)
(* Numbers.  The source computes with JavaScript numbers holding           *)
(* milliseconds since 1970-01-01.  Such values do not fit the 32-bit       *)
(* integers of the model checker, so a number is kept as two limbs,        *)
(* [sec, ms] with 0 <= ms < 1000, standing for sec * 1000 + ms, plus a     *)
(* flag for NaN.  A Date object is its time value, so it is the same       *)
(* record (an invalid Date is NaN).  All arithmetic on the limbs is exact. *)
(* A quantity in seconds (the bounds of the axis, the argument of          *)
(* dataToCoordinate) is kept in thousandths in the same two limbs, so that *)
(* multiplying or dividing by 1000 changes the unit and not the limbs.     *)
(*                                                                         *)
(* Calendar.  The source reads and builds dates in the local calendar of   *)
(* the JavaScript runtime; the model fixes that calendar to one without    *)
(* offset and without daylight saving (the proleptic Gregorian calendar).  *)
(***************************************************************************)
EXTENDS Integers, Sequences, FiniteSets, TLC

VARIABLES
  \* the level resolver's last two calls
  iMinDate, iMaxDate, tLevels, prevDiff, prevLevels,
  \* the calendar label engine's last call, and the call before a chained one
  call, prevCall,
  \* the axis view: the host's geometry and what the helper has drawn
  lowerBound, upperBound, orientation, axis, charWidth,
  maxNumberExtent, elementsToClear, visited, lastOp,
  \* the stride search taken pass by pass: the level it runs for (-1 when
  \* none runs), its tInterval and its tFoundWorkableInterval
  searchLevel, searchInterval, tFoundWorkableInterval

levelVars == <<iMinDate, iMaxDate, tLevels, prevDiff, prevLevels>>
calVars == <<call, prevCall>>
geomVars == <<lowerBound, upperBound, orientation, axis, charWidth>>
drawVars == <<maxNumberExtent, elementsToClear, visited, lastOp>>
searchVars == <<searchLevel, searchInterval, tFoundWorkableInterval>>
vars == <<levelVars, calVars, geomVars, drawVars, searchVars>>

----------------------------------------------------------------------------
(* JavaScript numbers (milliseconds) as two limbs *)

\* Every JavaScript value the helper handles is a record: its type tag and, as
\* a number (null counts as 0, undefined as NaN), its limbs
NaN == [tag |-> "number", nan |-> TRUE, sec |-> 0, ms |-> 0]

Num(s, m) == [tag |-> "number", nan |-> FALSE, sec |-> s, ms |-> m]

Null == [tag |-> "null", nan |-> FALSE, sec |-> 0, ms |-> 0]

Undefined == [tag |-> "undefined", nan |-> TRUE, sec |-> 0, ms |-> 0]

\* the number s * 1000 + m, with the limbs normalised (0 <= ms < 1000)
Norm(s, m) == Num(s + (m \div 1000), m % 1000)

\* a - b
Minus(a, b) == IF a.nan \/ b.nan THEN NaN ELSE Norm(a.sec - b.sec, a.ms - b.ms)

\* a + b
Plus(a, b) == IF a.nan \/ b.nan THEN NaN ELSE Norm(a.sec + b.sec, a.ms + b.ms)

\* a * n, n a small integer
Times(a, n) == IF a.nan THEN NaN ELSE Norm(a.sec * n, a.ms * n)

\* a < b; every comparison with NaN is false
Lt(a, b) ==
  /\ ~a.nan
  /\ ~b.nan
  /\ \/ a.sec < b.sec
     \/ (a.sec = b.sec /\ a.ms < b.ms)

\* a > b
Gt(a, b) == Lt(b, a)

\* a <= b
Le(a, b) == ~a.nan /\ ~b.nan /\ ~Lt(b, a)

\* a === b on numbers (NaN differs from itself)
StrictEq(a, b) == ~a.nan /\ ~b.nan /\ a.sec = b.sec /\ a.ms = b.ms

\* Math.max(a, b)
Max(a, b) ==
  IF a.nan \/ b.nan THEN NaN
  ELSE IF Lt(a, b) THEN Num(b.sec, b.ms) ELSE Num(a.sec, a.ms)

\* a / 2 (exact when a's thousandths are even, as the bounds drawn here are)
Half(a) ==
  IF a.nan THEN NaN
  ELSE Norm(a.sec \div 2, ((a.sec % 2) * 1000 + a.ms) \div 2)

\* (a + b) / 2, computed as a + (b - a) / 2 to stay within the limbs
HalfSum(a, b) == Plus(a, Half(Minus(b, a)))

\* |a|
Abs(a) == IF a.nan THEN NaN ELSE IF a.sec < 0 THEN Norm(0 - a.sec, 0 - a.ms) ELSE a

\* 1000 * a, and a / 1000: the unit changes, the limbs stay
Times1000(a) == IF a.nan THEN NaN ELSE Num(a.sec, a.ms)

Div1000(a) == IF a.nan THEN NaN ELSE Num(a.sec, a.ms)

\* SC.none(v): v is null or undefined
SCnone(v) == v.tag \in {"null", "undefined"}

\* isNaN(v)
isNaN(v) == v.nan

----------------------------------------------------------------------------
(* DateTime levels and the unit sizes in milliseconds *)

eSecond == 0
eMinute == 1
eHour == 2
eDay == 3
eMonth == 4
eYear == 5

EDateTimeLevel == {eSecond, eMinute, eHour, eDay, eMonth, eYear}

kSecond == Num(1, 0)
kMinute == Times(kSecond, 60)
kHour == Times(kMinute, 60)
kDay == Times(kHour, 24)
kMonth == Times(kDay, 30)
kYear == Times(kDay, 365)

kMonthNames ==
  <<"Jan", "Feb", "Mar", "Apr", "May", "Jun",
    "Jul", "Aug", "Sep", "Oct", "Nov", "Dec">>

----------------------------------------------------------------------------
(* The Date object of the runtime *)

SecPerDay == 86400

\* the day number (days since 1970-01-01) of day d of month m (1..12) of year y
DaysFromCivil(y, m, d) ==
  LET yy == IF m <= 2 THEN y - 1 ELSE y
      era == yy \div 400
      yoe == yy - era * 400
      mp == IF m > 2 THEN m - 3 ELSE m + 9
      doy == ((153 * mp + 2) \div 5) + d - 1
      doe == yoe * 365 + (yoe \div 4) - (yoe \div 100) + doy
  IN era * 146097 + doe - 719468

\* the year, month (0..11) and day of month of day number z
CivilFromDays(z) ==
  LET zz == z + 719468
      era == zz \div 146097
      doe == zz - era * 146097
      yoe == (doe - (doe \div 1460) + (doe \div 36524) - (doe \div 146096)) \div 365
      doy == doe - (365 * yoe + (yoe \div 4) - (yoe \div 100))
      mp == (5 * doy + 2) \div 153
      d == doy - ((153 * mp + 2) \div 5) + 1
      m == IF mp < 10 THEN mp + 3 ELSE mp - 9
      y == yoe + era * 400 + (IF m <= 2 THEN 1 ELSE 0)
  IN [year |-> y, month |-> m - 1, date |-> d]

\* var x = v; Body(x): v is evaluated once and Body reads its value
With(v, Body(_)) == CHOOSE r \in {Body(x) : x \in {v}} : TRUE

\* getFullYear(), getMonth(), getDate(), getHours(), getMinutes(),
\* getSeconds() and getMilliseconds() of a valid Date
Fields(iDate) ==
  With(CivilFromDays(iDate.sec \div SecPerDay), LAMBDA c :
    LET tod == iDate.sec % SecPerDay
    IN [year |-> c.year, month |-> c.month, date |-> c.date,
        hours |-> tod \div 3600, minutes |-> (tod % 3600) \div 60,
        seconds |-> tod % 60, ms |-> iDate.ms])

\* new Date(y, m, d, h, mi, s): any field may be out of range and carries
\* into the next one; the milliseconds are 0
NewDate(y, m, d, h, mi, s) ==
  LET fy == IF 0 <= y /\ y <= 99 THEN 1900 + y ELSE y
      ym == fy + (m \div 12)
      mn == m % 12
      day == DaysFromCivil(ym, mn + 1, 1) + d - 1
  IN Num(day * SecPerDay + h * 3600 + mi * 60 + s, 0)

\* toLocaleDateString() in the en-US locale: month/day/year
toLocaleDateString(iDate) ==
  IF iDate.nan THEN "Invalid Date"
  ELSE With(Fields(iDate), LAMBDA f :
         ToString(f.month + 1) \o "/" \o ToString(f.date) \o "/" \o ToString(f.year))

----------------------------------------------------------------------------
(* Level resolver *)

\* determineLevels with the first threshold compared by <= instead of <
determineLevelsInclusive(iMin, iMax) ==
  LET tDateDiff == Minus(iMax, iMin)
  IN IF Le(tDateDiff, Times(kMinute, 3))
       THEN [outerLevel |-> eDay, innerLevel |-> eSecond]
     ELSE IF Lt(tDateDiff, Times(kHour, 3))
       THEN [outerLevel |-> eDay, innerLevel |-> eMinute]
     ELSE IF Lt(tDateDiff, Times(kDay, 3))
       THEN [outerLevel |-> eDay, innerLevel |-> eHour]
     ELSE IF Lt(tDateDiff, Times(kMonth, 3))
       THEN [outerLevel |-> eMonth, innerLevel |-> eDay]
     ELSE IF Lt(tDateDiff, Times(kYear, 3))
       THEN [outerLevel |-> eYear, innerLevel |-> eMonth]
     ELSE [outerLevel |-> eYear, innerLevel |-> eYear]

\* determineLevels with the two levels of the month/day row assigned the
\* wrong way round
determineLevelsSwapped(iMin, iMax) ==
  LET tDateDiff == Minus(iMax, iMin)
  IN IF Lt(tDateDiff, Times(kMinute, 3))
       THEN [outerLevel |-> eDay, innerLevel |-> eSecond]
     ELSE IF Lt(tDateDiff, Times(kHour, 3))
       THEN [outerLevel |-> eDay, innerLevel |-> eMinute]
     ELSE IF Lt(tDateDiff, Times(kDay, 3))
       THEN [outerLevel |-> eDay, innerLevel |-> eHour]
     ELSE IF Lt(tDateDiff, Times(kMonth, 3))
       THEN [outerLevel |-> eDay, innerLevel |-> eMonth]
     ELSE IF Lt(tDateDiff, Times(kYear, 3))
       THEN [outerLevel |-> eYear, innerLevel |-> eMonth]
     ELSE [outerLevel |-> eYear, innerLevel |-> eYear]

determineLevels(iMin, iMax) ==
  LET tDateDiff == Minus(iMax, iMin)
  IN IF Lt(tDateDiff, Times(kMinute, 3))
       THEN [outerLevel |-> eDay, innerLevel |-> eSecond]
     ELSE IF Lt(tDateDiff, Times(kHour, 3))
       THEN [outerLevel |-> eDay, innerLevel |-> eMinute]
     ELSE IF Lt(tDateDiff, Times(kDay, 3))
       THEN [outerLevel |-> eDay, innerLevel |-> eHour]
     ELSE IF Lt(tDateDiff, Times(kMonth, 3))
       THEN [outerLevel |-> eMonth, innerLevel |-> eDay]
     ELSE IF Lt(tDateDiff, Times(kYear, 3))
       THEN [outerLevel |-> eYear, innerLevel |-> eMonth]
     ELSE [outerLevel |-> eYear, innerLevel |-> eYear]

----------------------------------------------------------------------------
(* Calendar label engine *)

Label(str, date) == [labelString |-> str, labelDate |-> date]

\* kMonthNames[undefined].loc(): the call throws a TypeError
Thrown == Label("TypeError", NaN)

\* n < 10 ? '0' + n : String(n)
Pad2(n) == IF n < 10 THEN "0" \o ToString(n) ELSE ToString(n)

getLevelLabelForValue(iLevel, iDate) ==
  IF iDate.nan
    THEN IF iLevel = eYear THEN Label("NaN", NaN)
         ELSE IF iLevel = eMonth THEN Thrown
         ELSE Label(toLocaleDateString(NaN), NaN)
  ELSE With(Fields(iDate), LAMBDA f :
    LET tYear == f.year
        tMonth == f.month
    IN IF iLevel = eYear
         THEN Label(ToString(tYear), NewDate(tYear, 1, 1, 0, 0, 0))
       ELSE IF iLevel = eMonth
         THEN Label(kMonthNames[tMonth + 1] \o ", " \o ToString(tYear),
                    NewDate(tYear, tMonth, 1, 0, 0, 0))
       ELSE
         LET tDay == f.date
             tHour == IF iLevel < eDay THEN f.hours ELSE 0
             tMinute == IF iLevel < eHour THEN f.minutes ELSE 0
             tSecond == IF iLevel < eMinute THEN f.seconds ELSE 0
         IN With(NewDate(tYear, tMonth, tDay, tHour, tMinute, tSecond),
                 LAMBDA tLabelDate : Label(toLocaleDateString(tLabelDate), tLabelDate)))

\* the fields getNextLevelLabelForValue holds after its switch on the level
NextFields(iLevel, f) ==
  CASE iLevel = eYear -> [f EXCEPT !.year = @ + 1]
    [] iLevel = eMonth ->
         IF f.month + 1 > 12
           THEN [f EXCEPT !.year = @ + 1, !.month = 1]
           ELSE [f EXCEPT !.month = @ + 1]
    [] iLevel = eDay -> [f EXCEPT !.date = @ + 1]
    [] iLevel = eHour ->
         IF f.hours + 1 > 24
           THEN [f EXCEPT !.date = @ + 1, !.hours = 0]
           ELSE [f EXCEPT !.hours = @ + 1]
    [] iLevel = eMinute ->
         IF f.minutes + 1 > 60
           THEN [f EXCEPT !.hours = @ + 1, !.minutes = 0]
           ELSE [f EXCEPT !.minutes = @ + 1]
    [] iLevel = eSecond ->
         IF f.seconds + 1 > 60
           THEN [f EXCEPT !.minutes = @ + 1, !.seconds = 0]
           ELSE [f EXCEPT !.seconds = @ + 1]
    [] OTHER -> f

getNextLevelLabelForValue(iLevel, iDate) ==
  IF iDate.nan THEN getLevelLabelForValue(iLevel, NaN)
  ELSE With(NextFields(iLevel, Fields(iDate)), LAMBDA g :
         With(IF iLevel <= eHour
                THEN NewDate(g.year, g.month, g.date, g.hours, g.minutes, g.seconds)
                ELSE NewDate(g.year, g.month, g.date, 0, 0, 0),
              LAMBDA tNextDate : getLevelLabelForValue(iLevel, tNextDate)))

\* the step taken also when d0 is iDate itself: <= for <
FirstAbove(iDate, d0, stepped) == IF Le(d0, iDate) THEN stepped ELSE d0

\* if (d0 < iDate) the date rebuilt after the step, else d0
FirstAtOrAbove(iDate, d0, stepped) == IF Lt(d0, iDate) THEN stepped ELSE d0

findFirstDateAboveOrAtLevel(iLevel, iDate) ==
  IF iDate.nan
    THEN CASE iLevel = eYear -> Label("NaN", NaN)
           [] iLevel = eMonth -> Thrown
           [] iLevel = eDay -> Label("NaN", NaN)
           [] iLevel = eHour -> Label("NaN:00", NaN)
           [] iLevel = eMinute -> Label("NaN", NaN)
           [] iLevel = eSecond -> Label("NaN", NaN)
           [] OTHER -> Label("", NaN)
  ELSE With(Fields(iDate), LAMBDA f :
    LET tYear == f.year
        tMonth == f.month
        tDayOfMonth == f.date
        tHour == f.hours
        tMinute == f.minutes
        tSecond == f.seconds
    IN CASE iLevel = eYear ->
              LET below == Lt(NewDate(tYear, 1, 1, 0, 0, 0), iDate)
                  y == IF below THEN tYear + 1 ELSE tYear
              IN Label(ToString(y), NewDate(y, 1, 1, 0, 0, 0))
         [] iLevel = eMonth ->
              With(FirstAtOrAbove(iDate, NewDate(tYear, tMonth, 1, 0, 0, 0),
                                  IF tMonth + 1 > 12
                                    THEN NewDate(tYear + 1, 1, 1, 0, 0, 0)
                                    ELSE NewDate(tYear, tMonth + 1, 1, 0, 0, 0)),
                   LAMBDA tResultDate :
                     Label(kMonthNames[Fields(tResultDate).month + 1], tResultDate))
         [] iLevel = eDay ->
              With(FirstAtOrAbove(iDate, NewDate(tYear, tMonth, tDayOfMonth, 0, 0, 0),
                                  NewDate(tYear, tMonth, tDayOfMonth + 1, 0, 0, 0)),
                   LAMBDA tResultDate :
                     Label(ToString(Fields(tResultDate).date), tResultDate))
         [] iLevel = eHour ->
              With(FirstAtOrAbove(iDate, NewDate(tYear, tMonth, tDayOfMonth, tHour, 0, 0),
                                  NewDate(tYear, tMonth, tDayOfMonth, tHour + 1, 0, 0)),
                   LAMBDA tResultDate :
                     Label(ToString(Fields(tResultDate).hours) \o ":00", tResultDate))
         [] iLevel = eMinute ->
              With(FirstAtOrAbove(iDate,
                                  NewDate(tYear, tMonth, tDayOfMonth, tHour, tMinute, 0),
                                  NewDate(tYear, tMonth, tDayOfMonth, tHour, tMinute + 1, 0)),
                   LAMBDA tResultDate :
                     Label(ToString(Fields(tResultDate).minutes), tResultDate))
         [] iLevel = eSecond ->
              With(FirstAtOrAbove(iDate,
                                  NewDate(tYear, tMonth, tDayOfMonth, tHour, tMinute, tSecond),
                                  NewDate(tYear, tMonth, tDayOfMonth, tHour, tMinute, tSecond)),
                   LAMBDA tResultDate :
                     Label(ToString(Fields(tResultDate).seconds), tResultDate))
         [] OTHER -> Label("", NaN))

\* the carry of the months taken as if they were numbered from 1: past 11
\* the year is stepped and 11 is taken off
CarryMonthsOneBased(tYear, tMonth) ==
  IF tMonth > 11 THEN [year |-> tYear + 1, month |-> tMonth - 11]
  ELSE [year |-> tYear, month |-> tMonth]

\* while (tMonth > 12) { tYear++; tMonth -= 12; }: the pair after the loop
RECURSIVE CarryMonths(_, _)
CarryMonths(tYear, tMonth) ==
  IF tMonth > 12 THEN CarryMonths(tYear + 1, tMonth - 12)
  ELSE [year |-> tYear, month |-> tMonth]

\* while (tHour > 24) { tDayOfMonth++; tHour -= 24; }: the pair after the loop
RECURSIVE CarryHours(_, _)
CarryHours(tDayOfMonth, tHour) ==
  IF tHour > 24 THEN CarryHours(tDayOfMonth + 1, tHour - 24)
  ELSE [date |-> tDayOfMonth, hours |-> tHour]

getLabelForIncrementedDateAtLevel(iLevel, iDate, iIncrementBy) ==
  IF iDate.nan
    THEN CASE iLevel = eYear -> Label("NaN", NaN)
           [] iLevel = eMonth -> Thrown
           [] iLevel = eDay -> Label("NaN", NaN)
           [] iLevel = eHour -> Label("NaN:00", NaN)
           [] iLevel = eMinute -> Label("NaN:NaN", NaN)
           [] iLevel = eSecond -> Label("NaN:NaN:NaN", NaN)
           [] OTHER -> Label("", NaN)
  ELSE With(Fields(iDate), LAMBDA f :
    LET tYear == f.year
        tMonth == f.month
        tDayOfMonth == f.date
        tHour == f.hours
        tMinute == f.minutes
        tSecond == f.seconds
    IN CASE iLevel = eYear ->
              Label(ToString(tYear + iIncrementBy),
                    NewDate(tYear + iIncrementBy, 1, 1, 0, 0, 0))
         [] iLevel = eMonth ->
              With(CarryMonths(tYear, tMonth + iIncrementBy), LAMBDA c :
                With(NewDate(c.year, c.month, 1, 0, 0, 0), LAMBDA tResultDate :
                  Label(kMonthNames[Fields(tResultDate).month + 1], tResultDate)))
         [] iLevel = eDay ->
              With(NewDate(tYear, tMonth, tDayOfMonth + iIncrementBy, 0, 0, 0),
                   LAMBDA tResultDate :
                     Label(ToString(Fields(tResultDate).date), tResultDate))
         [] iLevel = eHour ->
              With(CarryHours(tDayOfMonth, tHour + iIncrementBy), LAMBDA c :
                With(NewDate(tYear, tMonth, c.date, c.hours, 0, 0), LAMBDA tResultDate :
                  Label(ToString(Fields(tResultDate).hours) \o ":00", tResultDate)))
         [] iLevel = eMinute ->
              With(NewDate(tYear, tMonth, tDayOfMonth, tHour, tMinute + iIncrementBy, 0),
                   LAMBDA tResultDate :
                     Label(ToString(tHour) \o ":" \o Pad2(Fields(tResultDate).minutes),
                           tResultDate))
         [] iLevel = eSecond ->
              With(NewDate(tYear, tMonth, tDayOfMonth, tHour, tMinute,
                           tSecond + iIncrementBy),
                   LAMBDA tResultDate :
                     Label(ToString(tHour) \o ":" \o Pad2(tMinute) \o ":"
                             \o Pad2(Fields(tResultDate).seconds),
                           tResultDate))
         [] OTHER -> Label("", NaN))

----------------------------------------------------------------------------
(* Level resolver: the calls made on it *)

\* how far around each threshold, in milliseconds, the spans are drawn
MaxDelta == 1

NoLevels == [outerLevel |-> -1, innerLevel |-> -1]

LevelMins == {NewDate(2023, 0, 1, 0, 0, 0), Plus(NewDate(2024, 1, 28, 23, 59, 59), Num(0, 500))}

LevelSpans ==
  {Plus(Times(u, 3), Norm(0, d)) :
     u \in {kMinute, kHour, kDay, kMonth, kYear}, d \in (0 - MaxDelta)..MaxDelta}
    \cup {Num(0, 0), Num(90, 0), Norm(0, 0 - 1), Times(kYear, 4)}

LevelInit ==
  /\ iMinDate = NaN
  /\ iMaxDate = NaN
  /\ tLevels = NoLevels
  /\ prevDiff = NaN
  /\ prevLevels = NoLevels

CallDetermineLevels ==
  \E lo \in LevelMins, span \in LevelSpans :
    /\ iMinDate' = lo
    /\ iMaxDate' = Plus(lo, span)
    /\ tLevels' = determineLevels(lo, Plus(lo, span))
    /\ prevDiff' = Minus(iMaxDate, iMinDate)
    /\ prevLevels' = tLevels

----------------------------------------------------------------------------
(* Calendar label engine: the calls made on it *)

\* the largest increment passed to getLabelForIncrementedDateAtLevel
MaxIncrement == 2

TestDates ==
  {Plus(NewDate(y, m, d, h, mi, s), Num(0, f)) :
     y \in {2023, 2024}, m \in {0, 1, 11}, d \in {1, 28, 31},
     h \in {0, 23}, mi \in {0, 59}, s \in {0, 59}, f \in {0, 1}}

\* the dates of the scenarios: a November, the eve of a leap day, and a
\* minute and a second about to roll over
ScenarioDates ==
  {NewDate(2023, 10, 1, 0, 0, 0), NewDate(2020, 1, 28, 0, 0, 0),
   NewDate(2023, 0, 1, 10, 59, 0), NewDate(2023, 0, 1, 10, 0, 59)}

CallDates == TestDates \cup ScenarioDates

\* the increments passed on a first call: the small ones and, below the
\* year level, some of more than one year of months and of more than one and
\* two days of hours
Increments(l) ==
  IF l = eYear THEN 0..MaxIncrement ELSE (0..MaxIncrement) \cup {13, 26, 49}

Called(op, iLevel, iDate, iIncrementBy, out) ==
  [op |-> op, iLevel |-> iLevel, iDate |-> iDate,
   iIncrementBy |-> iIncrementBy, out |-> out]

NoCall == Called("none", 0, NaN, 0, Label("", NaN))

CalInit ==
  /\ call = NoCall
  /\ prevCall = NoCall

CallLevelLabel ==
  /\ call = NoCall
  /\ \E l \in EDateTimeLevel, d \in CallDates :
       /\ call' = Called("getLevelLabelForValue", l, d, 0, getLevelLabelForValue(l, d))
       /\ prevCall' = NoCall

CallNextLevelLabel ==
  /\ call = NoCall
  /\ \E l \in EDateTimeLevel, d \in CallDates :
       /\ call' = Called("getNextLevelLabelForValue", l, d, 0,
                         getNextLevelLabelForValue(l, d))
       /\ prevCall' = NoCall

CallFindFirst ==
  /\ call = NoCall
  /\ \E l \in EDateTimeLevel, d \in CallDates :
       /\ call' = Called("findFirstDateAboveOrAtLevel", l, d, 0,
                         findFirstDateAboveOrAtLevel(l, d))
       /\ prevCall' = NoCall

CallIncremented ==
  /\ call = NoCall
  /\ \E l \in EDateTimeLevel, d \in CallDates :
     \E n \in Increments(l) :
       /\ call' = Called("getLabelForIncrementedDateAtLevel", l, d, n,
                         getLabelForIncrementedDateAtLevel(l, d, n))
       /\ prevCall' = NoCall

\* a second increment, applied to the date the first one returned
CallIncrementedAgain ==
  /\ call.op = "getLabelForIncrementedDateAtLevel"
  /\ prevCall = NoCall
  /\ \E n \in 0..MaxIncrement :
       /\ call' = Called("getLabelForIncrementedDateAtLevel", call.iLevel,
                         call.out.labelDate, n,
                         getLabelForIncrementedDateAtLevel(call.iLevel,
                                                           call.out.labelDate, n))
       /\ prevCall' = call

\* findFirstDateAboveOrAtLevel applied to the date it returned
CallFindFirstAgain ==
  /\ call.op = "findFirstDateAboveOrAtLevel"
  /\ prevCall = NoCall
  /\ call' = Called("findFirstDateAboveOrAtLevel", call.iLevel,
                    call.out.labelDate, 0,
                    findFirstDateAboveOrAtLevel(call.iLevel, call.out.labelDate))
  /\ prevCall' = call

----------------------------------------------------------------------------
(* The host: the axis geometry and the rendering surface *)

\* DG.RenderingUtilities.kDefaultFontHeight
kDefaultFontHeight == 12

\* The pixel mapping is linear, axis.p / axis.q pixels per second, from the
\* lower bound on a horizontal axis and down from the upper bound on a
\* vertical one.  Pixel coordinates are kept in units of 1 / axis.q pixel (in
\* the two limbs, with thousandths), so that every coordinate is exact.
dataToCoordinate(v) ==
  IF orientation = "horizontal"
    THEN Times(Minus(v, lowerBound), axis.p)
    ELSE Times(Minus(upperBound, v), axis.p)

\* n pixels in the unit of the coordinates
Pixels(n) == Num(n * axis.q, 0)

\* DG.RenderingUtilities.textExtentOnCanvas(paper, text).x, in pixels
textExtentOnCanvas(text) == charWidth * Len(text)

\* 5 * w / 8 pixels in the unit of the coordinates
FiveEighths(w) == Norm(5 * ((w * axis.q) \div 8), 625 * ((w * axis.q) % 8))

\* an element of the paper: paper.text(...) or paper.line(...), at coord
\* along the axis; row tells the two text rows apart
Text(coord, str, anchor, row, rotation) ==
  [type |-> "text", coord |-> coord, labelString |-> str, anchor |-> anchor,
   row |-> row, rotation |-> rotation]

Line(coord) ==
  [type |-> "line", coord |-> coord, labelString |-> "", anchor |-> "",
   row |-> "tick", rotation |-> 0]

----------------------------------------------------------------------------
(* Tick layout engine *)

\* drawOneOuterLabel: the text element it pushes
drawOneOuterLabel(iCoord, iLabelString, iTextAnchor) ==
  IF orientation = "horizontal"
    THEN Text(Plus(iCoord, Pixels(axis.pixelMin)), iLabelString, iTextAnchor, "outer", 0)
    ELSE Text(Plus(iCoord, Pixels(axis.pixelMax)), iLabelString, iTextAnchor, "outer", 0 - 90)

\* the while (true) loop of drawOuterLabels: the elements pushed from
\* tThisLabel on
RECURSIVE OuterLoop(_, _, _, _)
OuterLoop(iLevel, tThisLabel, tSomethingDrawn, tFirstLabelString) ==
  LET tLowerBoundsSec == lowerBound
      tLowerBoundsMS == Times1000(lowerBound)
      tUpperBoundsSec == upperBound
      tUpperBoundsMS == Times1000(upperBound)
  IN With(getNextLevelLabelForValue(iLevel, tThisLabel.labelDate), LAMBDA tNextLabel :
       IF isNaN(tNextLabel.labelDate) THEN <<>>
       ELSE IF Gt(tThisLabel.labelDate, tUpperBoundsMS)
         THEN IF ~tSomethingDrawn
                THEN With(HalfSum(tLowerBoundsSec, tUpperBoundsSec), LAMBDA mid :
                       <<drawOneOuterLabel(dataToCoordinate(mid), tFirstLabelString,
                                           "middle")>>)
                ELSE <<>>
       ELSE IF tSomethingDrawn \/ Lt(tNextLabel.labelDate, tUpperBoundsMS)
         THEN With(dataToCoordinate(Max(Div1000(tThisLabel.labelDate), tLowerBoundsSec)),
                   LAMBDA tCoord :
                With(dataToCoordinate(Div1000(tNextLabel.labelDate)), LAMBDA tNextCoord :
                  LET tTextExtent == textExtentOnCanvas(tNextLabel.labelString)
                      tOKToDraw ==
                        ~(/\ Lt(tThisLabel.labelDate, tLowerBoundsMS)
                          /\ Gt(Times(Pixels(tTextExtent), 8),
                                Times(Abs(Minus(tNextCoord, tCoord)), 7)))
                  IN (IF tOKToDraw
                        THEN <<drawOneOuterLabel(tCoord, tThisLabel.labelString, "start")>>
                        ELSE <<>>)
                       \o OuterLoop(iLevel, tNextLabel, TRUE, tFirstLabelString)))
       ELSE OuterLoop(iLevel, tNextLabel, tSomethingDrawn, tFirstLabelString))

\* the elements drawOuterLabels pushes onto elementsToClear
drawOuterLabels(iLevel) ==
  With(getLevelLabelForValue(iLevel, Times1000(lowerBound)), LAMBDA tThisLabel :
    OuterLoop(iLevel, tThisLabel, FALSE, tThisLabel.labelString))

\* the inner while loop of findDrawValueModulus: TRUE when the pass with
\* tInterval finds a collision
RECURSIVE FoundCollision(_, _, _, _, _, _)
FoundCollision(iInnerLevel, tInterval, tDate, tLabel, tLastPixelUsed, tFirstTime) ==
  IF ~Lt(tDate, Times1000(upperBound)) THEN FALSE
  ELSE
    With(dataToCoordinate(Div1000(tDate)), LAMBDA tPixel :
    With(FiveEighths(textExtentOnCanvas(tLabel)), LAMBDA tHalfWidth :
      LET tOverlapped ==
            IF orientation = "horizontal"
              THEN Lt(Minus(tPixel, tHalfWidth), tLastPixelUsed)
              ELSE Gt(Plus(tPixel, tHalfWidth), tLastPixelUsed)
      IN IF tFirstTime \/ ~tOverlapped
           THEN With(getLabelForIncrementedDateAtLevel(iInnerLevel, tDate, tInterval),
                     LAMBDA tCurrentDateLabel :
                  With(IF orientation = "horizontal"
                         THEN Plus(tPixel, tHalfWidth)
                         ELSE Minus(tPixel, tHalfWidth),
                       LAMBDA tNewLastPixelUsed :
                         FoundCollision(iInnerLevel, tInterval,
                                        tCurrentDateLabel.labelDate,
                                        tCurrentDateLabel.labelString,
                                        tNewLastPixelUsed, FALSE)))
           ELSE TRUE))

\* the outer while loop of findDrawValueModulus, from tInterval on
RECURSIVE ModulusFrom(_, _, _)
ModulusFrom(iInnerLevel, iFirstDateLabel, tInterval) ==
  IF FoundCollision(iInnerLevel, tInterval, iFirstDateLabel.labelDate,
                    iFirstDateLabel.labelString, Undefined, TRUE)
    THEN With(tInterval + 1, LAMBDA n : ModulusFrom(iInnerLevel, iFirstDateLabel, n))
    ELSE tInterval

findDrawValueModulus(iInnerLevel, iFirstDateLabel) ==
  ModulusFrom(iInnerLevel, iFirstDateLabel, 1)

\* drawTickAndLabel with the tick mark pushed only along with a label
drawTickWithLabel(iDateLabel, iDrawLabel) ==
  With(dataToCoordinate(Div1000(iDateLabel.labelDate)), LAMBDA tCoord :
    With(IF orientation = "horizontal"
           THEN Plus(tCoord, Pixels(axis.pixelMin))
           ELSE Plus(tCoord, Pixels(axis.pixelMax)),
         LAMBDA tPixel :
           IF iDrawLabel
             THEN <<Line(tPixel),
                    Text(tPixel, iDateLabel.labelString, "", "inner",
                         IF orientation = "horizontal" THEN 0 ELSE 0 - 90)>>
             ELSE <<>>))

\* the elements drawTickAndLabel pushes: the tick and, when asked, the label
drawTickAndLabel(iDateLabel, iDrawLabel) ==
  With(dataToCoordinate(Div1000(iDateLabel.labelDate)), LAMBDA tCoord :
    With(IF orientation = "horizontal"
           THEN Plus(tCoord, Pixels(axis.pixelMin))
           ELSE Plus(tCoord, Pixels(axis.pixelMax)),
         LAMBDA tPixel :
           <<Line(tPixel)>>
             \o (IF iDrawLabel
                   THEN <<Text(tPixel, iDateLabel.labelString, "", "inner",
                               IF orientation = "horizontal" THEN 0 ELSE 0 - 90)>>
                   ELSE <<>>)))

\* the drawing loop of drawInnerLabels, from tDateLabel on
RECURSIVE InnerLoop(_, _, _, _)
InnerLoop(iLevel, tDateLabel, tCounter, tDrawValueModulus) ==
  IF ~Lt(tDateLabel.labelDate, Times1000(upperBound)) THEN <<>>
  ELSE drawTickAndLabel(tDateLabel, tCounter = 0)
         \o With(getLabelForIncrementedDateAtLevel(iLevel, tDateLabel.labelDate, 1),
                 LAMBDA tNext :
                   With((tCounter + 1) % tDrawValueModulus, LAMBDA tNextCounter :
                     InnerLoop(iLevel, tNext, tNextCounter, tDrawValueModulus)))

\* the elements drawInnerLabels pushes onto elementsToClear
drawInnerLabels(iLevel) ==
  With(findFirstDateAboveOrAtLevel(iLevel, Times1000(lowerBound)), LAMBDA tFirst :
    With(findDrawValueModulus(iLevel, tFirst), LAMBDA tDrawValueModulus :
      \* the format of the first label: increment 0
      With(getLabelForIncrementedDateAtLevel(iLevel, tFirst.labelDate, 0),
           LAMBDA tDateLabel : InnerLoop(iLevel, tDateLabel, 0, tDrawValueModulus))))

\* the loop of forEachTickDo: the (value, coordinate) pairs handed to iDoF
RECURSIVE TickLoop(_, _)
TickLoop(innerLevel, tDateLabel) ==
  IF ~Lt(tDateLabel.labelDate, Times1000(upperBound)) THEN <<>>
  ELSE <<[value |-> tDateLabel.labelDate,
          coord |-> dataToCoordinate(Div1000(tDateLabel.labelDate))]>>
         \o With(getLabelForIncrementedDateAtLevel(innerLevel, tDateLabel.labelDate, 1),
                 LAMBDA tNext : TickLoop(innerLevel, tNext))

forEachTickDo ==
  With(determineLevels(Times1000(lowerBound), Times1000(upperBound)), LAMBDA levels :
    With(findFirstDateAboveOrAtLevel(levels.innerLevel, Times1000(lowerBound)),
         LAMBDA tFirst : TickLoop(levels.innerLevel, tFirst)))

----------------------------------------------------------------------------
(* The axis view: the host's steps and the helper's entry points *)

\* the host lays the axis out over at least and at most this many pixels
MinAxisLength == 100
MaxAxisLength == 600

\* the pixel at which the axis starts
AxisMargin == 20

\* the pixel mappings the host may install: p / q pixels per second;
\* p = 0 sends every value to one pixel
Scales ==
  {[p |-> 0, q |-> 1], [p |-> 40, q |-> 1], [p |-> 1, q |-> 1], [p |-> 1, q |-> 60],
   [p |-> 1, q |-> 1440], [p |-> 1, q |-> 43200], [p |-> 1, q |-> 259200]}

CharWidths == {6, 16}

ViewLowers ==
  {NewDate(2023, 0, 1, 0, 0, 0),
   Plus(NewDate(2023, 11, 31, 23, 59, 58), Num(0, 500)),
   NewDate(2024, 1, 28, 22, 30, 0)}

ViewSpans ==
  {Num(4, 0), Plus(Times(kMinute, 3), Num(2, 0)), Plus(Times(kHour, 3), Times(kMinute, 30)),
   Plus(Times(kDay, 3), kHour), Times(kDay, 91), Times(kDay, 1096)}

\* the bounds the host may set, in seconds: ready ones, the span of the
\* scenario 2023-01-01 .. 2025-06-01, equal ones and unset ones
ReadyBounds ==
  {<<Div1000(lo), Div1000(Plus(lo, span))>> : lo \in ViewLowers, span \in ViewSpans}
    \cup {<<Div1000(NewDate(2023, 0, 1, 0, 0, 0)), Div1000(NewDate(2025, 5, 1, 0, 0, 0))>>}

UnreadyBounds ==
  LET t == Div1000(NewDate(2023, 0, 1, 0, 0, 0))
      early == Div1000(NewDate(1970, 0, 1, 0, 0, 4))
  IN {<<Null, Null>>, <<Undefined, Undefined>>, <<Null, early>>, <<t, Null>>,
      <<Undefined, t>>, <<t, Undefined>>, <<t, t>>}

\* the length in pixels of the axis from lo to hi under scale sc
AxisLength(lo, hi, sc) == ((hi.sec - lo.sec) * sc.p) \div sc.q

\* the host's mapping has a scale only once both bounds are set
ScaleFits(lo, hi, sc) ==
  \/ sc.p = 0
  \/ /\ lo.tag = "number" /\ hi.tag = "number" /\ ~lo.nan /\ ~hi.nan
     /\ Lt(lo, hi)
     /\ (hi.sec - lo.sec) \div sc.q <= MaxAxisLength
     /\ AxisLength(lo, hi, sc) >= MinAxisLength
     /\ AxisLength(lo, hi, sc) <= MaxAxisLength

Axis(lo, hi, sc, o) ==
  LET len == IF sc.p = 0 THEN 0 ELSE AxisLength(lo, hi, sc)
  IN [p |-> sc.p, q |-> sc.q,
      pixelMin |-> IF o = "horizontal" THEN AxisMargin ELSE AxisMargin + len,
      pixelMax |-> IF o = "horizontal" THEN AxisMargin + len ELSE AxisMargin]

Op(name, iLevel, calledOuter, calledInner, extentBefore) ==
  [name |-> name, iLevel |-> iLevel, calledOuter |-> calledOuter,
   calledInner |-> calledInner, extentBefore |-> extentBefore]

\* the view as constructed: no bounds, no scale, nothing drawn
ViewInit ==
  /\ lowerBound = Null
  /\ upperBound = Null
  /\ orientation = "horizontal"
  /\ axis = Axis(Null, Null, [p |-> 0, q |-> 1], "horizontal")
  /\ charWidth = 6
  /\ maxNumberExtent = 0
  /\ elementsToClear = <<>>
  /\ visited = <<>>
  /\ lastOp = Op("init", 0, FALSE, FALSE, 0)

\* the host sets the bounds and lays the axis out, before it redraws
HostSetGeometry ==
  /\ elementsToClear = <<>>
  /\ visited = <<>>
  /\ \E b \in ReadyBounds \cup UnreadyBounds, o \in {"horizontal", "vertical"},
        sc \in Scales, w \in CharWidths :
       /\ ScaleFits(b[1], b[2], sc)
       /\ lowerBound' = b[1]
       /\ upperBound' = b[2]
       /\ orientation' = o
       /\ axis' = Axis(b[1], b[2], sc, o)
       /\ charWidth' = w
  /\ lastOp' = Op("set", 0, FALSE, FALSE, maxNumberExtent)
  /\ UNCHANGED <<maxNumberExtent, elementsToClear, visited>>

\* the host removes what was drawn
HostClear ==
  /\ elementsToClear # <<>> \/ visited # <<>>
  /\ elementsToClear' = <<>>
  /\ visited' = <<>>
  /\ lastOp' = Op("clear", 0, FALSE, FALSE, maxNumberExtent)
  /\ UNCHANGED <<geomVars, maxNumberExtent>>

\* the most ticks one pass may step through
MaxTicks == 12

\* the least number of seconds in one unit of each level
UnitSeconds == <<1, 60, 3600, 86400, 28 * 86400, 365 * 86400>>

\* no more than MaxTicks units of the level lie between the bounds
FewTicks(l) ==
  LET lo == Times1000(lowerBound)
      hi == Times1000(upperBound)
  IN lo.nan \/ hi.nan \/ (hi.sec - lo.sec) \div UnitSeconds[l + 1] <= MaxTicks

\* the levels the layout passes are asked for on their own
DirectLevels ==
  IF lowerBound.tag = "number" /\ upperBound.tag = "number" /\ Lt(lowerBound, upperBound)
    THEN {l \in EDateTimeLevel : FewTicks(l)}
    ELSE {}

\* the outer level drawTicks resolves for the bounds
OuterLevel == determineLevels(Times1000(lowerBound), Times1000(upperBound)).outerLevel

\* the inner level drawTicks and forEachTickDo resolve for the bounds
InnerLevel == determineLevels(Times1000(lowerBound), Times1000(upperBound)).innerLevel

\* drawTicks without the else: it stores the new height and draws in the
\* same call
drawTicksDrawsAtOnce ==
  /\ elementsToClear = <<>>
  /\ FewTicks(InnerLevel)
  /\ LET tLower == Times1000(lowerBound)
         tUpper == Times1000(upperBound)
     IN IF SCnone(tLower) \/ SCnone(tUpper) \/ StrictEq(tUpper, tLower)
          THEN /\ lastOp' = Op("drawTicks", 0, FALSE, FALSE, maxNumberExtent)
               /\ UNCHANGED <<maxNumberExtent, elementsToClear>>
          ELSE
            LET levels == determineLevels(tLower, tUpper)
                tNumLevels == IF levels.outerLevel # levels.innerLevel THEN 2 ELSE 1
                tMaxNumberExtent == tNumLevels * kDefaultFontHeight
            IN /\ maxNumberExtent' = tMaxNumberExtent
               /\ elementsToClear' =
                    elementsToClear
                      \o (IF tNumLevels = 2 THEN drawOuterLabels(levels.outerLevel)
                                            ELSE <<>>)
                      \o drawInnerLabels(levels.innerLevel)
               /\ lastOp' = Op("drawTicks", 0, tNumLevels = 2, TRUE, maxNumberExtent)
  /\ UNCHANGED <<geomVars, visited>>

drawTicks ==
  /\ elementsToClear = <<>>
  /\ FewTicks(InnerLevel)
  /\ LET tLower == Times1000(lowerBound)
         tUpper == Times1000(upperBound)
     IN IF SCnone(tLower) \/ SCnone(tUpper) \/ StrictEq(tUpper, tLower)
          THEN /\ lastOp' = Op("drawTicks", 0, FALSE, FALSE, maxNumberExtent)
               /\ UNCHANGED <<maxNumberExtent, elementsToClear>>
          ELSE
            LET levels == determineLevels(tLower, tUpper)
                tNumLevels == IF levels.outerLevel # levels.innerLevel THEN 2 ELSE 1
                tMaxNumberExtent == tNumLevels * kDefaultFontHeight
            IN IF tMaxNumberExtent # maxNumberExtent
                 THEN /\ maxNumberExtent' = tMaxNumberExtent
                      /\ lastOp' = Op("drawTicks", 0, FALSE, FALSE, maxNumberExtent)
                      /\ UNCHANGED elementsToClear
                 ELSE /\ elementsToClear' =
                           elementsToClear
                             \o (IF tNumLevels = 2 THEN drawOuterLabels(levels.outerLevel)
                                                   ELSE <<>>)
                             \o drawInnerLabels(levels.innerLevel)
                      /\ lastOp' = Op("drawTicks", 0, tNumLevels = 2, TRUE, maxNumberExtent)
                      /\ UNCHANGED maxNumberExtent
  /\ UNCHANGED <<geomVars, visited>>

CallDrawOuterLabels ==
  /\ elementsToClear = <<>>
  /\ \E l \in DirectLevels :
       /\ elementsToClear' = elementsToClear \o drawOuterLabels(l)
       /\ lastOp' = Op("drawOuterLabels", l, TRUE, FALSE, maxNumberExtent)
  /\ UNCHANGED <<geomVars, maxNumberExtent, visited>>

CallDrawInnerLabels ==
  /\ elementsToClear = <<>>
  /\ \E l \in DirectLevels :
       /\ elementsToClear' = elementsToClear \o drawInnerLabels(l)
       /\ lastOp' = Op("drawInnerLabels", l, FALSE, TRUE, maxNumberExtent)
  /\ UNCHANGED <<geomVars, maxNumberExtent, visited>>

CallForEachTickDo ==
  /\ visited = <<>>
  /\ elementsToClear = <<>>
  /\ FewTicks(InnerLevel)
  /\ visited' = forEachTickDo
  /\ lastOp' = Op("forEachTickDo", 0, FALSE, FALSE, maxNumberExtent)
  /\ UNCHANGED <<geomVars, maxNumberExtent, elementsToClear>>

----------------------------------------------------------------------------
(* The stride search of drawInnerLabels, one pass of its outer loop a step *)

SearchInit ==
  /\ searchLevel = 0 - 1
  /\ searchInterval = 0
  /\ tFoundWorkableInterval = FALSE

\* a search is under way
Searching == searchLevel # 0 - 1 /\ ~tFoundWorkableInterval

\* the host lays the axis out while no search runs
SearchSetGeometry ==
  /\ ~Searching
  /\ HostSetGeometry
  /\ searchLevel' = 0 - 1
  /\ searchInterval' = 0
  /\ tFoundWorkableInterval' = FALSE

\* findDrawValueModulus is entered: tInterval = 1
BeginSearch ==
  /\ ~Searching
  /\ \E l \in DirectLevels : searchLevel' = l
  /\ searchInterval' = 1
  /\ tFoundWorkableInterval' = FALSE
  /\ UNCHANGED <<geomVars, drawVars>>

\* the body of the outer loop of findDrawValueModulus up to its last if:
\* tFoundCollision after the simulation from the first tick with tInterval
PassFoundCollision(iInnerLevel, tInterval) ==
  With(findFirstDateAboveOrAtLevel(iInnerLevel, Times1000(lowerBound)),
       LAMBDA iFirstDateLabel :
         FoundCollision(iInnerLevel, tInterval, iFirstDateLabel.labelDate,
                        iFirstDateLabel.labelString, Undefined, TRUE))

\* a pass that found a collision is followed by a pass with tInterval + 2
SearchPassSkipping ==
  /\ Searching
  /\ IF PassFoundCollision(searchLevel, searchInterval)
       THEN /\ searchInterval' = searchInterval + 2
            /\ UNCHANGED tFoundWorkableInterval
       ELSE /\ tFoundWorkableInterval' = TRUE
            /\ UNCHANGED searchInterval
  /\ UNCHANGED <<searchLevel, geomVars, drawVars>>

\* one pass of while (!tFoundWorkableInterval): the simulation from the first
\* tick with tInterval, then tInterval++ or tFoundWorkableInterval = true
SearchPass ==
  /\ Searching
  /\ IF PassFoundCollision(searchLevel, searchInterval)
       THEN /\ searchInterval' = searchInterval + 1
            /\ UNCHANGED tFoundWorkableInterval
       ELSE /\ tFoundWorkableInterval' = TRUE
            /\ UNCHANGED searchInterval
  /\ UNCHANGED <<searchLevel, geomVars, drawVars>>

----------------------------------------------------------------------------
(* Specifications *)

\* the axis view and its host
Init == LevelInit /\ CalInit /\ ViewInit /\ SearchInit

Next ==
  \/ HostSetGeometry /\ UNCHANGED <<levelVars, calVars, searchVars>>
  \/ HostClear /\ UNCHANGED <<levelVars, calVars, searchVars>>
  \/ drawTicks /\ UNCHANGED <<levelVars, calVars, searchVars>>
  \/ CallDrawOuterLabels /\ UNCHANGED <<levelVars, calVars, searchVars>>
  \/ CallDrawInnerLabels /\ UNCHANGED <<levelVars, calVars, searchVars>>
  \/ CallForEachTickDo /\ UNCHANGED <<levelVars, calVars, searchVars>>

Spec == Init /\ [][Next]_vars

\* the level resolver called on its own
LevelsNext == CallDetermineLevels /\ UNCHANGED <<calVars, geomVars, drawVars, searchVars>>

SpecLevels == Init /\ [][LevelsNext]_vars

\* the calendar label engine called on its own
CalendarNext ==
  \/ CallLevelLabel /\ UNCHANGED <<levelVars, geomVars, drawVars, searchVars>>
  \/ CallNextLevelLabel /\ UNCHANGED <<levelVars, geomVars, drawVars, searchVars>>
  \/ CallFindFirst /\ UNCHANGED <<levelVars, geomVars, drawVars, searchVars>>
  \/ CallIncremented /\ UNCHANGED <<levelVars, geomVars, drawVars, searchVars>>
  \/ CallIncrementedAgain /\ UNCHANGED <<levelVars, geomVars, drawVars, searchVars>>
  \/ CallFindFirstAgain /\ UNCHANGED <<levelVars, geomVars, drawVars, searchVars>>

SpecCalendar == Init /\ [][CalendarNext]_vars

\* the stride search pass by pass; the loop is synchronous, so a search
\* that was entered goes on to its next pass
SearchPassStep == SearchPass /\ UNCHANGED <<levelVars, calVars>>

SearchNext ==
  \/ SearchSetGeometry /\ UNCHANGED <<levelVars, calVars>>
  \/ BeginSearch /\ UNCHANGED <<levelVars, calVars>>
  \/ SearchPassStep

SpecSearch == Init /\ [][SearchNext]_vars /\ WF_vars(SearchPassStep)

----------------------------------------------------------------------------
(* Reference notions: alignment in the calendar *)

\* d is aligned at level l: every field finer than l is at its minimum
AlignedAt(l, d) ==
  /\ ~d.nan
  /\ d.ms = 0
  /\ LET f == Fields(d)
     IN /\ l >= eMinute => f.seconds = 0
        /\ l >= eHour => f.minutes = 0
        /\ l >= eDay => f.hours = 0
        /\ l >= eMonth => f.date = 1
        /\ l >= eYear => f.month = 0

\* the latest instant aligned at level l that is not after d
AlignDown(l, d) ==
  LET f == Fields(d)
  IN NewDate(f.year,
             IF l >= eYear THEN 0 ELSE f.month,
             IF l >= eMonth THEN 1 ELSE f.date,
             IF l >= eDay THEN 0 ELSE f.hours,
             IF l >= eHour THEN 0 ELSE f.minutes,
             IF l >= eMinute THEN 0 ELSE f.seconds)

\* the instant one unit of level l after the aligned instant d
OneUnitAfter(l, d) ==
  LET f == Fields(d)
  IN NewDate(IF l = eYear THEN f.year + 1 ELSE f.year,
             IF l = eMonth THEN f.month + 1 ELSE f.month,
             IF l = eDay THEN f.date + 1 ELSE f.date,
             IF l = eHour THEN f.hours + 1 ELSE f.hours,
             IF l = eMinute THEN f.minutes + 1 ELSE f.minutes,
             IF l = eSecond THEN f.seconds + 1 ELSE f.seconds)

\* the earliest instant aligned at level l that is not before d
AlignUp(l, d) == IF AlignedAt(l, d) THEN d ELSE OneUnitAfter(l, AlignDown(l, d))

\* the instants aligned at level l in [from, upTo), in increasing order
RECURSIVE AlignedFrom(_, _, _)
AlignedFrom(l, from, upTo) ==
  IF ~Lt(from, upTo) THEN <<>>
  ELSE <<from>> \o With(OneUnitAfter(l, from), LAMBDA n : AlignedFrom(l, n, upTo))

AlignedWithin(l, lo, hi) == With(AlignUp(l, lo), LAMBDA a : AlignedFrom(l, a, hi))

\* both bounds are set and the lower one is the smaller
ReadyNow ==
  /\ lowerBound.tag = "number"
  /\ upperBound.tag = "number"
  /\ Lt(lowerBound, upperBound)

----------------------------------------------------------------------------
(* C1, C2: the level resolver (checked under SpecLevels) *)

C2_OuterCoarserAndMonotonic ==
  tLevels # NoLevels =>
    /\ tLevels.outerLevel >= tLevels.innerLevel
    /\ prevLevels # NoLevels =>
         LET diff == Minus(iMaxDate, iMinDate)
         IN /\ Le(prevDiff, diff) =>
                 /\ prevLevels.outerLevel <= tLevels.outerLevel
                 /\ prevLevels.innerLevel <= tLevels.innerLevel
            /\ Le(diff, prevDiff) =>
                 /\ tLevels.outerLevel <= prevLevels.outerLevel
                 /\ tLevels.innerLevel <= prevLevels.innerLevel

\* two calls in a row, the second with the wider span and a coarser inner level
C2_Witness ==
  /\ prevLevels # NoLevels
  /\ Lt(prevDiff, Minus(iMaxDate, iMinDate))
  /\ prevLevels.innerLevel < tLevels.innerLevel
  /\ prevLevels.outerLevel < tLevels.outerLevel

----------------------------------------------------------------------------
(* C3 - C6: the calendar operators (checked under SpecCalendar) *)

\* C3: findFirstDateAboveOrAtLevel(level, x) returns the earliest instant
\* aligned at the level that is not before x: it is aligned (January 1 at
\* the year level), it is x or later, and no aligned instant lies between x
\* and it.
C3_FirstIsCeiling ==
  call.op = "findFirstDateAboveOrAtLevel" =>
    LET r == call.out.labelDate
    IN /\ AlignedAt(call.iLevel, r)
       /\ Le(call.iDate, r)
       /\ r = AlignUp(call.iLevel, call.iDate)

\* C4: getLevelLabelForValue(level, x) returns an instant aligned at the
\* level, not after x, with x less than one unit of the level after it.
C4_LabelIsFloor ==
  call.op = "getLevelLabelForValue" =>
    LET r == call.out.labelDate
    IN /\ AlignedAt(call.iLevel, r)
       /\ Le(r, call.iDate)
       /\ Lt(call.iDate, OneUnitAfter(call.iLevel, r))

\* C5: incrementing an aligned instant by zero units returns that instant,
\* with the label text getLevelLabelForValue gives it.
C5_ZeroIncrementIsIdentity ==
  ( /\ call.op = "getLabelForIncrementedDateAtLevel"
    /\ prevCall = NoCall
    /\ call.iIncrementBy = 0
    /\ AlignedAt(call.iLevel, call.iDate) ) =>
    /\ call.out.labelDate = call.iDate
    /\ call.out.labelString =
         getLevelLabelForValue(call.iLevel, call.iDate).labelString

\* C6: incrementing an aligned instant by a units and the result by b units
\* gives the instant and the label text of incrementing it by a + b units.
C6_IncrementsCompose ==
  ( /\ call.op = "getLabelForIncrementedDateAtLevel"
    /\ prevCall # NoCall
    /\ AlignedAt(prevCall.iLevel, prevCall.iDate) ) =>
    LET direct == getLabelForIncrementedDateAtLevel(
                    call.iLevel, prevCall.iDate,
                    prevCall.iIncrementBy + call.iIncrementBy)
    IN /\ call.out.labelDate = direct.labelDate
       /\ call.out.labelString = direct.labelString

----------------------------------------------------------------------------
(* C7 - C10: the axis view (checked under Spec) *)

\* the pixel along the axis of the instant ms (in milliseconds)
PixelOf(ms) ==
  Plus(dataToCoordinate(Div1000(ms)),
       Pixels(IF orientation = "horizontal" THEN axis.pixelMin ELSE axis.pixelMax))

\* the length of the axis in pixels
AxisPixels ==
  IF axis.pixelMax >= axis.pixelMin THEN axis.pixelMax - axis.pixelMin
                                    ELSE axis.pixelMin - axis.pixelMax

\* the text elements of one row among those drawn
TextsOfRow(row) ==
  SelectSeq(elementsToClear, LAMBDA e : e.type = "text" /\ e.row = row)

\* C7: forEachTickDo visits exactly the instants aligned at the inner level
\* that lie in [lowerBound, upperBound), each once and in increasing order.
C7_TicksAreTheAlignedInstants ==
  (lastOp.name = "forEachTickDo" /\ ReadyNow) =>
    [i \in 1..Len(visited) |-> visited[i].value]
      = AlignedWithin(InnerLevel, Times1000(lowerBound), Times1000(upperBound))

\* C8: no two labels drawInnerLabels placed for the inner level of the
\* bounds overlap along the axis, each taking its pixel plus or minus half
\* the width of its drawn text, on an axis at least as long as a label is
\* wide.
C8_InnerLabelsDoNotOverlap ==
  ( /\ lastOp.calledInner
    /\ ReadyNow
    /\ lastOp.name = "drawInnerLabels" => lastOp.iLevel = InnerLevel ) =>
    LET texts == TextsOfRow("inner")
        w(i) == textExtentOnCanvas(texts[i].labelString)
    IN \A i, j \in 1..Len(texts) :
         (i < j /\ w(i) <= AxisPixels /\ w(j) <= AxisPixels) =>
           Le(Pixels(w(i) + w(j)),
              Times(Abs(Minus(texts[i].coord, texts[j].coord)), 2))

\* C9: drawOuterLabels, asked for the outer level of the bounds, draws one
\* label for each run of that level that begins inside the visible range, at
\* the pixel of the run's start (the aligned instant, January 1 at the year
\* level); when one run covers the whole visible axis it draws one label,
\* centered at the pixel of the midpoint of the bounds; for 2023-01-01 ..
\* 2025-06-01 at the year level the labels are "2023", "2024", "2025".
C9_OuterLabelsAtRunStarts ==
  ( /\ lastOp.name = "drawOuterLabels"
    /\ ReadyNow
    /\ axis.p # 0
    /\ lastOp.iLevel = OuterLevel
    /\ OuterLevel # InnerLevel ) =>
    LET l == lastOp.iLevel
        lo == Times1000(lowerBound)
        hi == Times1000(upperBound)
        texts == TextsOfRow("outer")
        starts == AlignedWithin(l, lo, hi)
        oneRun == \A k \in 1..Len(starts) : starts[k] = lo
    IN /\ IF oneRun
            THEN /\ Len(texts) = 1
                 /\ texts[1].anchor = "middle"
                 /\ texts[1].coord =
                      PixelOf(Times1000(HalfSum(lowerBound, upperBound)))
            ELSE \A k \in 1..Len(starts) :
                   Cardinality({i \in 1..Len(texts) :
                                  /\ texts[i].coord = PixelOf(starts[k])
                                  /\ texts[i].labelString =
                                       getLevelLabelForValue(l, starts[k]).labelString})
                     = 1
       /\ ( /\ l = eYear
            /\ lo = NewDate(2023, 0, 1, 0, 0, 0)
            /\ hi = NewDate(2025, 5, 1, 0, 0, 0) ) =>
            [i \in 1..Len(texts) |-> texts[i].labelString] = <<"2023", "2024", "2025">>

\* C10: with a bound unset (null or undefined) or the two bounds equal,
\* drawTicks does nothing: it calls neither layout pass, adds no element and
\* leaves maxNumberExtent as it was.
C10_NotReadyIsNoOp ==
  ( /\ lastOp.name = "drawTicks"
    /\ \/ SCnone(lowerBound)
       \/ SCnone(upperBound)
       \/ lowerBound = upperBound ) =>
    /\ ~lastOp.calledOuter
    /\ ~lastOp.calledInner
    /\ elementsToClear = <<>>
    /\ maxNumberExtent = lastOp.extentBefore

----------------------------------------------------------------------------
(* C11: the two phases of drawTicks (checked under Spec) *)

\* the label-row height drawTicks computes for the bounds
RowHeight == (IF OuterLevel = InnerLevel THEN 1 ELSE 2) * kDefaultFontHeight

\* what one call of drawTicks on ready bounds has done
DrawTicksPhase ==
  (lastOp.name = "drawTicks" /\ ReadyNow) =>
    IF RowHeight # lastOp.extentBefore
      THEN /\ maxNumberExtent = RowHeight
           /\ ~lastOp.calledOuter
           /\ ~lastOp.calledInner
           /\ elementsToClear = <<>>
      ELSE /\ maxNumberExtent = lastOp.extentBefore
           /\ lastOp.calledInner
           /\ lastOp.calledOuter <=> OuterLevel # InnerLevel

\* a call of drawTicks right after one that drew nothing, the bounds the same
DrawTicksAgain ==
  /\ lastOp.name = "drawTicks"
  /\ ~lastOp.calledInner
  /\ ReadyNow
  /\ lastOp'.name = "drawTicks"
  /\ lowerBound' = lowerBound
  /\ upperBound' = upperBound

\* C11: on ready bounds drawTicks computes the label-row height as the
\* number of tiers (1 if outer = inner, 2 otherwise) times the font height;
\* if it differs from maxNumberExtent the call only stores it and draws
\* nothing, and if it is equal the call draws the inner labels, and the outer
\* ones exactly when outer differs from inner.  So a call that follows one
\* that drew nothing, the bounds unchanged, draws.
C11_StoreThenDraw ==
  /\ []DrawTicksPhase
  /\ [][DrawTicksAgain => lastOp'.calledInner]_vars

\* drawTicks has drawn two tiers, after the call that stored their height
C11_Witness ==
  /\ lastOp.name = "drawTicks"
  /\ ReadyNow
  /\ lastOp.calledOuter
  /\ lastOp.calledInner
  /\ lastOp.extentBefore = 2 * kDefaultFontHeight
  /\ TextsOfRow("outer") # <<>>
  /\ TextsOfRow("inner") # <<>>

----------------------------------------------------------------------------
(* C12 - C15: the calendar operators, continued (checked under SpecCalendar) *)

\* the months of d counted from year 0
MonthCount(d) == With(Fields(d), LAMBDA f : f.year * 12 + f.month)

\* C12: at the month level an increment of n from a month-aligned instant
\* gives day 1 of the month n calendar months later, the year carried
\* (November plus 2 is January of the next year); at the day level an
\* increment of n from a day-aligned instant gives the day n calendar days
\* later (2020-02-28 plus 1 is 2020-02-29, and plus 1 again 2020-03-01).
C12_MonthAndDayIncrements ==
  ( /\ call.op = "getLabelForIncrementedDateAtLevel"
    /\ AlignedAt(call.iLevel, call.iDate) ) =>
    LET x == call.iDate
        n == call.iIncrementBy
        r == call.out.labelDate
    IN /\ call.iLevel = eMonth =>
            /\ AlignedAt(eMonth, r)
            /\ MonthCount(r) = MonthCount(x) + n
            /\ (Fields(x).month = 10 /\ n = 2) =>
                 (Fields(r).month = 0 /\ Fields(r).year = Fields(x).year + 1)
       /\ call.iLevel = eDay =>
            /\ AlignedAt(eDay, r)
            /\ r = Plus(x, Num(n * 86400, 0))
            /\ (x = NewDate(2020, 1, 28, 0, 0, 0) /\ n = 1) =>
                 r = NewDate(2020, 1, 29, 0, 0, 0)
            /\ (x = NewDate(2020, 1, 29, 0, 0, 0) /\ n = 1) =>
                 r = NewDate(2020, 2, 1, 0, 0, 0)

\* 2020-02-28 was stepped by one day twice, to 2020-02-29 and 2020-03-01
C12_Witness ==
  /\ call.op = "getLabelForIncrementedDateAtLevel"
  /\ call.iLevel = eDay
  /\ prevCall.iDate = NewDate(2020, 1, 28, 0, 0, 0)
  /\ prevCall.iIncrementBy = 1
  /\ call.iDate = NewDate(2020, 1, 29, 0, 0, 0)
  /\ call.iIncrementBy = 1
  /\ call.out.labelDate = NewDate(2020, 2, 1, 0, 0, 0)

\* C13: findFirstDateAboveOrAtLevel, applied at the same level to the
\* instant it returned for a valid instant, returns that instant again.
C13_FirstIsIdempotent ==
  ( /\ call.op = "findFirstDateAboveOrAtLevel"
    /\ prevCall.op = "findFirstDateAboveOrAtLevel"
    /\ ~prevCall.iDate.nan ) =>
    /\ call.iDate = prevCall.out.labelDate
    /\ call.out.labelDate = prevCall.out.labelDate

\* the first call moved off its input, the second stayed where the first
\* had come to
C13_Witness ==
  /\ call.op = "findFirstDateAboveOrAtLevel"
  /\ prevCall.op = "findFirstDateAboveOrAtLevel"
  /\ call.iLevel = eMonth
  /\ Lt(prevCall.iDate, prevCall.out.labelDate)
  /\ call.out.labelDate = prevCall.out.labelDate

\* C14: at the day, hour, minute and second levels the label text of
\* getLabelForIncrementedDateAtLevel is built from the fields of the instant
\* it returns, minutes and seconds padded to two digits: 10:59 plus one
\* minute is labelled "11:00", 10:00:59 plus one second "10:01:00".
C14_LabelOfReturnedInstant ==
  ( /\ call.op = "getLabelForIncrementedDateAtLevel"
    /\ ~call.iDate.nan
    /\ call.iLevel \in {eDay, eHour, eMinute, eSecond} ) =>
    LET x == call.iDate
        n == call.iIncrementBy
        r == Fields(call.out.labelDate)
        text == call.out.labelString
    IN /\ call.iLevel = eDay => text = ToString(r.date)
       /\ call.iLevel = eHour => text = ToString(r.hours) \o ":00"
       /\ call.iLevel = eMinute =>
            /\ text = ToString(r.hours) \o ":" \o Pad2(r.minutes)
            /\ (x = NewDate(2023, 0, 1, 10, 59, 0) /\ n = 1) => text = "11:00"
       /\ call.iLevel = eSecond =>
            /\ text = ToString(r.hours) \o ":" \o Pad2(r.minutes)
                        \o ":" \o Pad2(r.seconds)
            /\ (x = NewDate(2023, 0, 1, 10, 0, 59) /\ n = 1) => text = "10:01:00"

\* C15: getNextLevelLabelForValue(level, x) returns the aligned instant one
\* unit of the level after getLevelLabelForValue(level, x): it is aligned,
\* strictly later, and no aligned instant lies strictly between the two
\* (December goes to January of the next year, hour 23 to hour 0 of the next
\* day, and a month step from day 29 to 31 skips no month).
C15_NextIsOneUnitLater ==
  ( /\ call.op = "getNextLevelLabelForValue"
    /\ ~call.iDate.nan ) =>
    LET a == getLevelLabelForValue(call.iLevel, call.iDate).labelDate
        r == call.out.labelDate
    IN /\ AlignedAt(call.iLevel, r)
       /\ Lt(a, r)
       /\ Le(AlignDown(call.iLevel, Minus(r, Num(0, 1))), a)

----------------------------------------------------------------------------
(* C16, C17: the inner labels and the stride search (checked under Spec) *)

\* drawInnerLabels has just run for the inner level of ready bounds
InnerJustDrawn ==
  /\ lastOp.calledInner
  /\ ReadyNow
  /\ lastOp.name = "drawInnerLabels" => lastOp.iLevel = InnerLevel

\* the first tick of the inner pass and the stride the search returns for it
FirstTick == findFirstDateAboveOrAtLevel(InnerLevel, Times1000(lowerBound))

Stride == findDrawValueModulus(InnerLevel, FirstTick)

\* the instants a pass of the stride search at level l steps through with
\* stride k, from tDate on, when nothing collides
RECURSIVE SearchVisits(_, _, _)
SearchVisits(l, k, tDate) ==
  IF ~Lt(tDate, Times1000(upperBound)) THEN <<>>
  ELSE <<tDate>>
         \o With(getLabelForIncrementedDateAtLevel(l, tDate, k).labelDate,
                 LAMBDA n : SearchVisits(l, k, n))

\* the pixels of the elements of one type and row among those drawn
CoordsOf(type, row) ==
  LET es == SelectSeq(elementsToClear, LAMBDA e : e.type = type /\ e.row = row)
  IN [i \in 1..Len(es) |-> es[i].coord]

\* the members of seq at the indices that, counted from 0, are multiples of k
EveryNth(seq, k) ==
  LET idx == {i \in 1..Len(seq) : (i - 1) % k = 0}
      nth(j) == CHOOSE i \in idx : Cardinality({h \in idx : h < i}) = j - 1
  IN [j \in 1..Cardinality(idx) |-> seq[nth(j)]]

PassCollides(l, k) ==
  With(findFirstDateAboveOrAtLevel(l, Times1000(lowerBound)), LAMBDA first :
    With(SearchVisits(l, k, first.labelDate), LAMBDA visits :
      LET text(i) ==
            IF i = 1 THEN first.labelString
            ELSE getLabelForIncrementedDateAtLevel(l, visits[i - 1], k).labelString
          px(i) == dataToCoordinate(Div1000(visits[i]))
          room(i) == IF orientation = "horizontal"
                       THEN Minus(px(i + 1), px(i))
                       ELSE Minus(px(i), px(i + 1))
      IN \E i \in 1..(Len(visits) - 1) :
           Lt(Times(room(i), 8),
              Pixels(5 * (textExtentOnCanvas(text(i))
                            + textExtentOnCanvas(text(i + 1)))))))

\* the search has ended on the smallest stride whose pass does not collide
SearchResult ==
  (searchLevel # 0 - 1 /\ tFoundWorkableInterval) =>
    /\ searchInterval >= 1
    /\ ~PassCollides(searchLevel, searchInterval)
    /\ \A k \in 1..(searchInterval - 1) : PassCollides(searchLevel, k)

\* the strides are tried in the order 1, 2, 3, ...
SearchOrder ==
  (Searching /\ Searching' /\ searchLevel' = searchLevel) =>
    searchInterval' = searchInterval + 1

\* C17: the stride search ends, for every level, ready bounds, text width
\* and pixel mapping (a mapping that sends every instant to one pixel
\* included); the strides are tried in the order 1, 2, 3, ..., each pass
\* from the first tick, and the stride returned is the smallest one whose
\* pass finds no overlap.
C17_SearchEndsOnLeastStride ==
  /\ []SearchResult
  /\ [][SearchOrder]_vars
  /\ Searching ~> tFoundWorkableInterval

\* on a mapping that sends every instant to one pixel the search ended
\* after more than two failed passes
C17_Witness ==
  /\ searchLevel # 0 - 1
  /\ tFoundWorkableInterval
  /\ axis.p = 0
  /\ searchInterval > 3

====
